---- MODULE Spec2Model ----
(***************************************************************************)
(* Step-pulse generation core of the two-axis motor controller             *)
(* (src/AVR/MotorController/kinematics.c, lines 125-441: the stepper part  *)
(* of the file).                                                           *)
(*                                                                         *)
(* Three execution levels on one CPU:                                      *)
(*   HI   ISR(DDA_TIMER_ISR_vect), which calls _load_move at segment end;  *)
(*   MED  ISR(LOAD_TIMER_ISR_vect) and ISR(EXEC_TIMER_ISR_vect);           *)
(*   LO   the foreground (planner enqueue, st_request_exec_move).          *)
(* Nothing preempts HI, so one DDA interrupt (its nested _load_move        *)
(* included) is one atomic step.  The MED handlers and the foreground are  *)
(* stepped statement by statement (medPc, fgPc hold the source line to be  *)
(* executed next) and a DDA interrupt may fall between any two of their    *)
(* statements while the DDA timer is enabled.  MED handlers do not preempt *)
(* each other; the foreground runs only while no MED handler is active.    *)
(*                                                                         *)
(* Numbers: the C code computes in float and int32/uint32.  The model      *)
(* keeps exact integers and truncates where the code casts to uint32; the  *)
(* inputs are small, so no 32-bit value wraps.  Step counts are rationals  *)
(* <<num, den>>, durations are a whole number of microseconds or not       *)
(* finite (NaN, infinity).                                                 *)
(***************************************************************************)
EXTENDS Integers, Sequences, FiniteSets, TLC

\* ---------------------------------------------------------------- bounds
\* Number of segments the planner delivers in one run.
MaxSegs == 2
\* Ticks a segment is followed once --st.dda_ticks_downcount has passed zero
\* (the int32_t counter then needs 2^32 - 1 more ticks to come back to zero).
MaxRunaway == 2

\* ------------------------------------------------------ program constants
\* Defined in headers that are not part of src/ (stepper.h, tinyg.h,
\* MachineDefinitions.h); values from the spec's scenarios and glossary.
F_DDA == 50000
DDA_SUBSTEPS == 2
ACCUMULATOR_RESET_FACTOR == 2
Z_AXIS_MOTOR_POLARITY == 1
R_AXIS_MOTOR_POLARITY == 0
\* EPSILON = 1 / EPSILON_INV microseconds: "a tiny positive floor".
EPSILON_INV == 100000

Motors == {"Z", "R"}
POLARITY == [Z |-> Z_AXIS_MOTOR_POLARITY, R |-> R_AXIS_MOTOR_POLARITY]

PREP_BUFFER_OWNED_BY_LOADER == "LOADER"
PREP_BUFFER_OWNED_BY_EXEC == "EXEC"
MOVE_TYPE_NULL == "NULL"
MOVE_TYPE_ALINE == "ALINE"

STAT_OK == "STAT_OK"
STAT_NOOP == "STAT_NOOP"
STAT_INTERNAL_ERROR == "STAT_INTERNAL_ERROR"
STAT_MINIMUM_LENGTH_MOVE_ERROR == "STAT_MINIMUM_LENGTH_MOVE_ERROR"
STAT_MINIMUM_TIME_MOVE_ERROR == "STAT_MINIMUM_TIME_MOVE_ERROR"

\* ------------------------------------------------------------- arithmetic
Abs(x) == IF x < 0 THEN -x ELSE x
Xor(a, b) == IF a = b THEN 0 ELSE 1
\* (uint32_t) of a non-negative rational num/den: truncation.
TruncDiv(num, den) == num \div den
\* A float duration: finite with a value in microseconds, or NaN/infinity.
Usec(n) == [finite |-> TRUE, val |-> n]
NotFinite == [finite |-> FALSE, val |-> 0]
isfinite(us) == us.finite
\* microseconds < EPSILON
BelowEpsilon(us) == us.val * EPSILON_INV < 1
\* (uint32_t)fabs(steps * dda_substeps), steps = <<num, den>>
PhaseIncrement(steps) == TruncDiv(Abs(steps[1]) * DDA_SUBSTEPS, steps[2])
\* (uint32_t)((microseconds/1000000) * f_dda)
DdaTicks(us) == TruncDiv(us.val * F_DDA, 1000000)
\* |steps| rounded to the nearest integer (half up)
RoundSteps(steps) == (2 * Abs(steps[1]) + steps[2]) \div (2 * steps[2])

\* ------------------------------------------------------------------ state
VARIABLES
  st,             \* stRunSingleton: the runtime struct read by the DDA ISR
  sps,            \* stPrepSingleton: the prep (staging) buffer
  timers,         \* enable bits of the DDA, load and exec timers
  dirPin,         \* MOTOR_x_DIRECTION_PORT bit of each motor
  stepCount,      \* stepCount[]: pulses emitted per motor
  motionComplete, \* mcState->motionComplete
  planner,        \* segments waiting in the planner, segments made so far
  medPc,          \* next statement of the active MED handler, or "idle"
  medSeg,         \* arguments of the st_prep_line call in progress
  fgPc,           \* next statement of the foreground call, or "idle"
  obs,            \* observers: history the properties are stated on
  prepRes         \* result of the last atomic st_prep_line call (SpecPrep)

vars == <<st, sps, timers, dirPin, stepCount, motionComplete, planner,
          medPc, medSeg, fgPc, obs, prepRes>>

\* Segments the planner can hand to the preparer: type, steps[] as
\* rationals, directions[], microseconds.
Seg(t, sz, sr, dz, dr, us) ==
  [type |-> t, steps |-> [Z |-> sz, R |-> sr], dirs |-> [Z |-> dz, R |-> dr],
   us |-> us]

NullSeg == Seg(MOVE_TYPE_NULL, <<0, 1>>, <<0, 1>>, 0, 0, Usec(0))

SegInputs ==
  { NullSeg,
    \* 3 ticks: 1.5 steps on Z, 1 step on R
    Seg(MOVE_TYPE_ALINE, <<3, 2>>, <<1, 1>>, 1, 0, Usec(60)),
    \* 1 tick: 1 step back on Z, a quarter step on R
    Seg(MOVE_TYPE_ALINE, <<-1, 1>>, <<1, 4>>, 1, 1, Usec(20)),
    \* 1 tick: nothing on Z, 3 steps on R
    Seg(MOVE_TYPE_ALINE, <<0, 1>>, <<3, 1>>, 0, 0, Usec(20)),
    \* half a tick, no steps
    Seg(MOVE_TYPE_ALINE, <<0, 1>>, <<0, 1>>, 0, 0, Usec(10)),
    \* no duration
    Seg(MOVE_TYPE_ALINE, <<1, 1>>, <<0, 1>>, 0, 0, Usec(0)),
    \* not finite
    Seg(MOVE_TYPE_ALINE, <<1, 1>>, <<0, 1>>, 0, 0, NotFinite)
  }

\* The state the handlers work on, as one record.
Machine ==
  [st |-> st, sps |-> sps, tm |-> timers, dirPin |-> dirPin,
   stepCount |-> stepCount, mc |-> motionComplete, pc |-> medPc, obs |-> obs]

\* The handler leaves the machine as m.
Apply(m) ==
  \E v \in {m} :
    /\ st' = v.st
    /\ sps' = v.sps
    /\ timers' = v.tm
    /\ dirPin' = v.dirPin
    /\ stepCount' = v.stepCount
    /\ motionComplete' = v.mc
    /\ obs' = v.obs

\* The element of a one-element set.  Statements in sequence are written
\* The({ second(x) : x \in {first(m)} }): x is the state the first one left.
The(S) == CHOOSE r \in S : TRUE

Min(a, b) == IF a < b THEN a ELSE b
Max(a, b) == IF a > b THEN a ELSE b
\* a / b rounded up, for a >= 0 and b > 0
CeilDiv(a, b) == (a + b - 1) \div b

\* -------------------------------------------------------------- observers
\* History variables.  They never influence the program state.
\* The pulses of one motor in the running segment: tick of the last one (0:
\* none yet), whether the accumulator was <= 0 before that tick, their
\* number, the smallest and the largest distance between two in a row.
NoPulses == [t |-> 0, ok |-> FALSE, n |-> 0, gmin |-> 0, gmax |-> 0]

ObsInit ==
  [hand |-> 0,          \* hand-overs by _exec_move since the last consumption
   dup |-> FALSE,       \* a consumption not preceded by exactly one hand-over
   torn |-> FALSE,      \* the loader read sps while a prep was half written
   readBad |-> FALSE,   \* the loader read sps while not its owner
   writeBad |-> FALSE,  \* the preparer wrote sps while not its owner
   preps |-> 0,         \* preps that took effect since the last consumption
   gated |-> FALSE,     \* an exec request was refused since the last hand-over
   prepIn |-> NullSeg,  \* arguments of the last accepted st_prep_line
   prepCond |-> FALSE,  \* the anti-stall condition of that call
   prevT |-> 0,         \* dda_ticks of the ALINE segment prepared before it
   run |-> [mm \in Motors |-> [nz |-> FALSE, dir |-> 0]],
                        \* the loaded segment: step count non-zero, direction
   segT |-> 0,          \* dda_ticks of the loaded segment
   ran |-> 0,           \* DDA ticks since it was loaded
   lenBad |-> FALSE,    \* a segment ended before, or ran on after, segT ticks
   dirBad |-> FALSE,    \* a pulse was emitted with the wrong direction pin
   fresh |-> FALSE,     \* a segment is loaded and its first tick not yet run
   runCond |-> FALSE,   \* prepCond of the loaded segment
   resid |-> [mm \in Motors |-> 0],
                        \* the accumulators when its load began
   sumS |-> [mm \in Motors |-> 0],
                        \* sum of |steps| rounded, over the loaded segments
   nseg |-> 0,          \* number of loaded ALINE segments
   mcSince |-> 0,       \* motionComplete := true since the last consumption
   pl |-> [mm \in Motors |-> NoPulses],
   gapBadN |-> FALSE,   \* a finished segment's pulses were not floor(T/N) or
                        \* ceil(T/N) ticks apart
   gapBadR |-> FALSE,   \* two pulses in a row were not floor or ceil of
                        \* dda_ticks_X_substeps / phase_increment ticks apart
   consumed |-> FALSE]  \* some prepared segment has been consumed

\* The exec handler is between the first and the last write of a prep.
PrepMidPcs == {"P418"}

\* The load interrupt is between its first write to st (line 268) and the
\* start of the DDA timer (line 308): st holds parts of two segments.
LoadMidPcs == {"L269", "L277", "L291", "L308"}

\* _load_move passed both gates: it consumes the prep buffer.
ObsConsume(m) ==
  [m EXCEPT !.obs.dup = @ \/ (m.obs.hand # 1), !.obs.hand = 0,
            !.obs.preps = 0, !.obs.gated = FALSE, !.obs.mcSince = 0,
            !.obs.consumed = TRUE]

\* _load_move reads a field of sps.
ObsRead(m) ==
  [m EXCEPT !.obs.readBad = @ \/ (m.sps.exec_state # PREP_BUFFER_OWNED_BY_LOADER),
            !.obs.torn = @ \/ (m.pc \in PrepMidPcs)]

\* _load_move starts copying an ALINE segment.
ObsLoad(m) ==
  [m EXCEPT !.obs.segT = m.sps.dda_ticks, !.obs.ran = 0,
            !.obs.pl = [mm \in Motors |-> NoPulses],
            !.obs.resid = [mm \in Motors |-> m.st.m[mm].phase_accumulator],
            !.obs.nseg = @ + 1]

\* _load_move copies motor mm of the segment.
ObsMotor(m, mm) ==
  [m EXCEPT !.obs.run[mm] = [nz |-> m.obs.prepIn.steps[mm][1] # 0,
                             dir |-> m.obs.prepIn.dirs[mm]],
            !.obs.sumS[mm] = @ + RoundSteps(m.obs.prepIn.steps[mm])]

\* _load_move enables the DDA timer: the segment starts.
ObsStart(m) ==
  [m EXCEPT !.obs.fresh = TRUE, !.obs.runCond = m.obs.prepCond]

\* A DDA tick begins.
ObsTick(m) ==
  [m EXCEPT !.obs.fresh = FALSE, !.obs.resid = [mm \in Motors |-> 0],
            !.obs.ran = Min(@ + 1, m.obs.segT + 1)]

\* The pulses p of a motor with increment inc, over a whole segment of T
\* ticks, are not spread evenly: N = p.n >= 2 of them, and two in a row
\* closer than floor(T/N) or further apart than ceil(T/N), or on adjacent
\* ticks although 2N <= T.
Uneven(p, inc, X, T) ==
  /\ p.n >= 2
  /\ inc <= X
  /\ \/ p.gmin < T \div p.n
     \/ p.gmax > CeilDiv(T, p.n)
     \/ (2 * p.n <= T /\ p.gmin < 2)

\* A DDA tick has decremented the downcount.
ObsTickEnd(m) ==
  [m EXCEPT !.obs.lenBad =
              @ \/ (IF m.st.dda_ticks_downcount = 0
                    THEN m.obs.ran # m.obs.segT
                    ELSE m.obs.ran >= m.obs.segT),
            !.obs.gapBadN =
              @ \/ (/\ m.st.dda_ticks_downcount = 0
                    /\ m.obs.ran = m.obs.segT
                    /\ \E mm \in Motors :
                         Uneven(m.obs.pl[mm], m.st.m[mm].phase_increment,
                                m.st.dda_ticks_X_substeps, m.obs.segT)),
            !.obs.pl = IF m.st.dda_ticks_downcount = 0
                       THEN [mm \in Motors |-> NoPulses] ELSE @]

\* A pulse g ticks after the last one, of a motor with increment inc, is out
\* of step: g is not floor or ceil of X / inc, or g = 1 although 2 inc <= X.
OutOfStep(g, inc, X) ==
  /\ inc > 0
  /\ inc <= X
  /\ \/ g < X \div inc
     \/ g > CeilDiv(X, inc)
     \/ (2 * inc <= X /\ g < 2)

\* The DDA ISR pulses motor mm (m: the state before the accumulator is
\* touched).  A pulse that falls into a load belongs to no segment.
ObsPulse(m, mm) ==
  LET p == m.obs.pl[mm]
      t == m.obs.ran
      g == t - p.t
      first == p.t = 0
      mid == m.pc \in LoadMidPcs
  IN
  [m EXCEPT !.obs.dirBad =
              @ \/ (m.obs.run[mm].nz
                    /\ m.dirPin[mm] # Xor(m.obs.run[mm].dir, POLARITY[mm])),
            !.obs.gapBadR =
              @ \/ (/\ ~mid
                    /\ ~first
                    /\ p.ok
                    /\ t <= m.obs.segT
                    /\ OutOfStep(g, m.st.m[mm].phase_increment,
                                 m.st.dda_ticks_X_substeps)),
            !.obs.pl[mm] =
              IF mid THEN NoPulses
              ELSE [t |-> t,
                    ok |-> m.st.m[mm].phase_accumulator <= 0,
                    n |-> p.n + 1,
                    gmin |-> IF first THEN 0
                             ELSE IF p.gmin = 0 THEN g ELSE Min(p.gmin, g),
                    gmax |-> IF first THEN 0 ELSE Max(p.gmax, g)]]

\* st_prep_line or st_prep_null writes fields of sps.
ObsWrite(m) ==
  [m EXCEPT !.obs.writeBad = @ \/ (m.sps.exec_state # PREP_BUFFER_OWNED_BY_EXEC)]

\* st_prep_line has filled the buffer from segment seg.
ObsPrepLine(m, seg) ==
  [m EXCEPT !.obs.prepIn = seg,
            !.obs.prepCond =
               DdaTicks(seg.us) * ACCUMULATOR_RESET_FACTOR < m.obs.prevT,
            !.obs.prevT = DdaTicks(seg.us),
            !.obs.preps = Min(@ + 1, 2)]

\* st_prep_null has filled the buffer.
ObsPrepNull(m) == [m EXCEPT !.obs.preps = Min(@ + 1, 2)]

\* _exec_move hands the buffer to the loader.
ObsHandOver(m) == [m EXCEPT !.obs.hand = Min(@ + 1, 2)]

\* An exec request finds the buffer owned by the loader and does nothing.
ObsGated(m) == [m EXCEPT !.obs.gated = TRUE]

\* _load_move reports motion complete.
ObsMotionComplete(m) == [m EXCEPT !.obs.mcSince = Min(@ + 1, 2)]

\* ----------------------------------------------------------- st_prep_line
\* The three traps of lines 406-408, in their order.
prep_check(s, us) ==
  IF s.exec_state # PREP_BUFFER_OWNED_BY_EXEC THEN STAT_INTERNAL_ERROR
  ELSE IF ~isfinite(us) THEN STAT_MINIMUM_LENGTH_MOVE_ERROR
  ELSE IF BelowEpsilon(us) THEN STAT_MINIMUM_TIME_MOVE_ERROR
  ELSE STAT_OK

\* Lines 410-416: clear reset_flag, set dir and phase_increment per motor.
prep_motors(s, steps, dirs) ==
  [s EXCEPT !.reset_flag = FALSE,
            !.m = [mm \in Motors |->
                     [phase_increment |-> PhaseIncrement(steps[mm]),
                      dir |-> Xor(dirs[mm], POLARITY[mm])]]]

\* Lines 418-427: ticks, anti-stall heuristic, prev_ticks, type, prep_state.
prep_ticks(s, us) ==
  LET t == DdaTicks(us) IN
  [s EXCEPT !.dda_ticks = t,
            !.dda_ticks_X_substeps = t * DDA_SUBSTEPS,
            !.reset_flag = IF t * ACCUMULATOR_RESET_FACTOR < s.prev_ticks
                           THEN TRUE ELSE s.reset_flag,
            !.prev_ticks = t,
            !.move_type = MOVE_TYPE_ALINE,
            !.prep_state = TRUE]

\* Variant that clears reset_flag before the traps instead of after them.
st_prep_line_early_clear(s, steps, dirs, us) ==
  LET c == [s EXCEPT !.reset_flag = FALSE]
      status == prep_check(c, us) IN
  IF status # STAT_OK THEN [status |-> status, sps |-> c]
  ELSE [status |-> STAT_OK, sps |-> prep_ticks(prep_motors(c, steps, dirs), us)]

\* The whole call: status and the buffer it leaves.
st_prep_line(s, steps, dirs, us) ==
  LET status == prep_check(s, us) IN
  IF status # STAT_OK THEN [status |-> status, sps |-> s]
  ELSE [status |-> STAT_OK, sps |-> prep_ticks(prep_motors(s, steps, dirs), us)]

\* Variant that also forgets the length of the last segment.
st_prep_null_ticks(s) ==
  [s EXCEPT !.move_type = MOVE_TYPE_NULL, !.prep_state = TRUE,
            !.prev_ticks = 0]

\* Lines 437-441.
st_prep_null(s) ==
  [s EXCEPT !.move_type = MOVE_TYPE_NULL, !.prep_state = TRUE]

\* ------------------------------------------------------------- _load_move
\* Line 258: exit if the runtime is still busy.
load_busy(m) == m.st.dda_ticks_downcount # 0

\* Line 259: is there a prepared segment.
load_owned(m) == m.sps.exec_state = PREP_BUFFER_OWNED_BY_LOADER

\* Line 262.
load_262(m) == [m EXCEPT !.mc = TRUE]

load_268(m) == [m EXCEPT !.st.dda_ticks_downcount = m.sps.dda_ticks]

load_269(m) == [m EXCEPT !.st.dda_ticks_X_substeps = m.sps.dda_ticks_X_substeps]

\* Lines 277-289 (Z) and 291-301 (R): increment, accumulator reset,
\* direction pin.
load_motor(m, mm) ==
  LET inc == m.sps.m[mm].phase_increment IN
  [m EXCEPT !.st.m[mm].phase_increment = inc,
            !.st.m[mm].phase_accumulator =
               IF m.sps.reset_flag = TRUE
               THEN -(m.st.dda_ticks_downcount) ELSE @,
            !.dirPin[mm] =
               IF inc # 0
               THEN (IF m.sps.m[mm].dir = 0 THEN 0 ELSE 1) ELSE @]

\* Lines 306-308: enable the DDA timer.
load_308(m) == [m EXCEPT !.tm.dda = TRUE]

load_312(m) == [m EXCEPT !.sps.exec_state = PREP_BUFFER_OWNED_BY_EXEC]

load_313(m) == [m EXCEPT !.sps.prep_state = FALSE]

\* Lines 321-326.
st_request_exec_move(m) ==
  IF m.sps.exec_state = PREP_BUFFER_OWNED_BY_EXEC
  THEN [m EXCEPT !.tm.exec = TRUE] ELSE m

\* Lines 267-309: the ALINE branch.
load_aline(m) ==
  The({ load_308(ObsStart(r)) :
        r \in { load_motor(ObsMotor(z, "R"), "R") :
                z \in { load_motor(ObsMotor(c, "Z"), "Z") :
                        c \in { load_269(load_268(ObsLoad(ObsRead(m)))) } } } })

\* The whole of _load_move, as the DDA ISR runs it (nothing preempts it).
_load_move(m) ==
  IF load_busy(m) THEN m
  ELSE IF ~load_owned(m) THEN load_262(ObsMotionComplete(m))
  ELSE The({ st_request_exec_move(load_313(load_312(l))) :
             l \in { IF c.sps.move_type = MOVE_TYPE_ALINE
                     THEN load_aline(c) ELSE c :
                     c \in { ObsRead(ObsConsume(m)) } } })

\* ------------------------------------------------- ISR(DDA_TIMER_ISR_vect)
\* Variant with "=-" for "-=": a pulse sets the accumulator to
\* -dda_ticks_X_substeps.
dda_motor_assign(m, mm) ==
  LET a == m.st.m[mm].phase_accumulator + m.st.m[mm].phase_increment IN
  IF a > 0
  THEN [ObsPulse(m, mm) EXCEPT
          !.st.m[mm].phase_accumulator = -(m.st.dda_ticks_X_substeps),
          !.stepCount[mm] = @ + 1]
  ELSE [m EXCEPT !.st.m[mm].phase_accumulator = a]

\* Lines 208-213 (Z) and 215-220 (R).
dda_motor(m, mm) ==
  LET a == m.st.m[mm].phase_accumulator + m.st.m[mm].phase_increment IN
  IF a > 0
  THEN [ObsPulse(m, mm) EXCEPT
          !.st.m[mm].phase_accumulator = a - m.st.dda_ticks_X_substeps,
          !.stepCount[mm] = @ + 1]
  ELSE [m EXCEPT !.st.m[mm].phase_accumulator = a]

\* Lines 222-225.
dda_end(m) ==
  The({ IF d.st.dda_ticks_downcount = 0
        THEN The({ _load_move(e) : e \in { [d EXCEPT !.tm.dda = FALSE] } })
        ELSE d :
        d \in { ObsTickEnd([m EXCEPT !.st.dda_ticks_downcount = @ - 1]) } })

dda_isr(m) ==
  The({ dda_end(r) :
        r \in { dda_motor(z, "R") :
                z \in { dda_motor(t, "Z") : t \in { ObsTick(m) } } } })

\* ------------------------------------------------------------------- Init
\* The statics are zeroed and st_init has run (line 371).
StInit ==
  [dda_ticks_downcount |-> 0, dda_ticks_X_substeps |-> 0,
   m |-> [mm \in Motors |-> [phase_increment |-> 0, phase_accumulator |-> 0]]]

SpsInit ==
  [move_type |-> MOVE_TYPE_NULL, prep_state |-> FALSE,
   exec_state |-> PREP_BUFFER_OWNED_BY_EXEC, reset_flag |-> FALSE,
   prev_ticks |-> 0, dda_ticks |-> 0, dda_ticks_X_substeps |-> 0,
   m |-> [mm \in Motors |-> [phase_increment |-> 0, dir |-> 0]]]

\* No st_prep_line call recorded.
NoPrepRes ==
  [called |-> FALSE, status |-> STAT_OK, before |-> SpsInit, us |-> Usec(0)]

Init ==
  /\ st = StInit
  /\ sps = SpsInit
  /\ timers = [dda |-> FALSE, load |-> FALSE, exec |-> FALSE]
  /\ dirPin = [mm \in Motors |-> 0]
  /\ stepCount = [mm \in Motors |-> 0]
  /\ motionComplete = FALSE
  /\ planner = [queued |-> 0, made |-> 0]
  /\ medPc = "idle"
  /\ medSeg = NullSeg
  /\ fgPc = "idle"
  /\ obs = ObsInit
  /\ prepRes = NoPrepRes

\* ------------------------------------------------------- HI: the DDA timer
\* The DDA interrupt fires while its timer is enabled, at any point of the
\* MED handlers and of the foreground.
DdaIsr ==
  /\ timers.dda
  /\ st.dda_ticks_downcount > -MaxRunaway
  /\ UNCHANGED <<planner, medPc, medSeg, fgPc, prepRes>>
  /\ Apply(dda_isr(Machine))

\* ------------------------------------------- MED: ISR(LOAD_TIMER_ISR_vect)
LoadPcs == {"L258", "L259", "L267", "L268", "L269", "L277", "L291", "L308",
            "L312", "L313", "L314"}

\* Line 244: the load interrupt fires and disables its timer.
LoadIsr ==
  /\ medPc = "idle"
  /\ timers.load
  /\ timers' = [timers EXCEPT !.load = FALSE]
  /\ medPc' = "L258"
  /\ UNCHANGED <<st, sps, dirPin, stepCount, motionComplete, planner, medSeg,
                 fgPc, obs, prepRes>>

\* One statement of _load_move at MED level: the state it leaves and the
\* statement that follows.
load_step(pc, m) ==
  CASE pc = "L258" ->
         [m |-> m, pc |-> IF load_busy(m) THEN "idle" ELSE "L259"]
    [] pc = "L259" ->
         IF load_owned(m)
         THEN [m |-> ObsConsume(m), pc |-> "L267"]
         ELSE [m |-> load_262(ObsMotionComplete(m)), pc |-> "idle"]
    [] pc = "L267" ->
         [m |-> ObsRead(m),
          pc |-> IF m.sps.move_type = MOVE_TYPE_ALINE THEN "L268" ELSE "L312"]
    [] pc = "L268" -> [m |-> load_268(ObsLoad(ObsRead(m))), pc |-> "L269"]
    [] pc = "L269" -> [m |-> load_269(ObsRead(m)), pc |-> "L277"]
    [] pc = "L277" ->
         [m |-> load_motor(ObsMotor(ObsRead(m), "Z"), "Z"), pc |-> "L291"]
    [] pc = "L291" ->
         [m |-> load_motor(ObsMotor(ObsRead(m), "R"), "R"), pc |-> "L308"]
    [] pc = "L308" -> [m |-> load_308(ObsStart(m)), pc |-> "L312"]
    [] pc = "L312" -> [m |-> load_312(m), pc |-> "L313"]
    [] pc = "L313" -> [m |-> load_313(m), pc |-> "L314"]
    [] pc = "L314" -> [m |-> st_request_exec_move(m), pc |-> "idle"]

LoadStep ==
  /\ medPc \in LoadPcs
  /\ UNCHANGED <<planner, medSeg, fgPc, prepRes>>
  /\ \E r \in {load_step(medPc, Machine)} :
       /\ medPc' = r.pc
       /\ Apply(r.m)

\* ------------------------------------------- MED: ISR(EXEC_TIMER_ISR_vect)
ExecPcs == {"E338", "E340", "P406", "P410", "P418", "E341", "E342"}

\* Line 331: the exec interrupt fires and disables its timer.
ExecIsr ==
  /\ medPc = "idle"
  /\ timers.exec
  /\ timers' = [timers EXCEPT !.exec = FALSE]
  /\ medPc' = "E338"
  /\ UNCHANGED <<st, sps, dirPin, stepCount, motionComplete, planner, medSeg,
                 fgPc, obs, prepRes>>

\* Variant without the ownership test.
exec_owned_always(m) == TRUE

\* Line 338.
exec_owned(m) == m.sps.exec_state = PREP_BUFFER_OWNED_BY_EXEC

exec_341(m) == [m EXCEPT !.sps.exec_state = PREP_BUFFER_OWNED_BY_LOADER]

\* Variant with the test inverted: request a load only while busy.
_request_load_move_busy(m) ==
  IF m.st.dda_ticks_downcount # 0 THEN [m EXCEPT !.tm.load = TRUE] ELSE m

\* Lines 233-239.
_request_load_move(m) ==
  IF m.st.dda_ticks_downcount = 0 THEN [m EXCEPT !.tm.load = TRUE] ELSE m

\* Line 338: _exec_move tests who owns the buffer.
ExecGate ==
  /\ medPc = "E338"
  /\ medPc' = IF exec_owned(Machine) THEN "E340" ELSE "idle"
  /\ obs' = IF exec_owned(Machine) THEN obs ELSE ObsGated(Machine).obs
  /\ UNCHANGED <<st, sps, timers, dirPin, stepCount, motionComplete, planner,
                 medSeg, fgPc, prepRes>>

\* Line 340, mp_exec_move (planner.c): with nothing queued it returns
\* STAT_NOOP; otherwise it takes the next segment and calls st_prep_null or
\* st_prep_line, whose status it returns.
mp_exec_move_noop ==
  /\ medPc = "E340"
  /\ planner.queued = 0
  /\ medPc' = "idle"
  /\ UNCHANGED <<st, sps, timers, dirPin, stepCount, motionComplete, planner,
                 medSeg, fgPc, obs, prepRes>>

mp_exec_move_null ==
  /\ medPc = "E340"
  /\ planner.queued > 0
  /\ planner' = [planner EXCEPT !.queued = @ - 1]
  /\ medPc' = "E341"
  /\ UNCHANGED <<medSeg, fgPc, prepRes>>
  /\ LET m == ObsWrite(Machine) IN
       Apply(ObsPrepNull([m EXCEPT !.sps = st_prep_null(m.sps)]))

mp_exec_move_aline ==
  /\ medPc = "E340"
  /\ planner.queued > 0
  /\ planner' = [planner EXCEPT !.queued = @ - 1]
  /\ \E seg \in SegInputs :
       /\ seg.type = MOVE_TYPE_ALINE
       /\ medSeg' = seg
  /\ medPc' = "P406"
  /\ UNCHANGED <<st, sps, timers, dirPin, stepCount, motionComplete, fgPc, obs,
                 prepRes>>

\* st_prep_line, statement by statement, on the arguments in medSeg.
PrepCheck ==
  /\ medPc = "P406"
  /\ IF prep_check(sps, medSeg.us) = STAT_OK
     THEN medPc' = "P410" /\ UNCHANGED medSeg
     ELSE medPc' = "E341" /\ medSeg' = NullSeg
  /\ UNCHANGED <<st, sps, timers, dirPin, stepCount, motionComplete, planner,
                 fgPc, obs, prepRes>>

PrepMotors ==
  /\ medPc = "P410"
  /\ medPc' = "P418"
  /\ UNCHANGED <<planner, medSeg, fgPc, prepRes>>
  /\ LET m == ObsWrite(Machine) IN
       Apply([m EXCEPT !.sps = prep_motors(m.sps, medSeg.steps, medSeg.dirs)])

PrepTicks ==
  /\ medPc = "P418"
  /\ medPc' = "E341"
  /\ medSeg' = NullSeg
  /\ UNCHANGED <<planner, fgPc, prepRes>>
  /\ LET m == ObsWrite(Machine) IN
       Apply(ObsPrepLine([m EXCEPT !.sps = prep_ticks(m.sps, medSeg.us)],
                         medSeg))

\* Line 341: mp_exec_move did not return STAT_NOOP.
ExecHandOver ==
  /\ medPc = "E341"
  /\ medPc' = "E342"
  /\ UNCHANGED <<planner, medSeg, fgPc, prepRes>>
  /\ Apply(exec_341(ObsHandOver(Machine)))

\* Line 342.
ExecRequestLoad ==
  /\ medPc = "E342"
  /\ medPc' = "idle"
  /\ UNCHANGED <<planner, medSeg, fgPc, prepRes>>
  /\ Apply(_request_load_move(Machine))

\* --------------------------------------------------------- LO: foreground
\* The planner queues a segment; mp_queue_write_buffer then calls
\* st_request_exec_move.
FgEnqueue ==
  /\ medPc = "idle"
  /\ fgPc = "idle"
  /\ planner.made < MaxSegs
  /\ planner' = [queued |-> planner.queued + 1, made |-> planner.made + 1]
  /\ fgPc' = "F323"
  /\ UNCHANGED <<st, sps, timers, dirPin, stepCount, motionComplete, medPc,
                 medSeg, obs, prepRes>>

\* The foreground calls st_request_exec_move once more.
FgRequest ==
  /\ medPc = "idle"
  /\ fgPc = "idle"
  /\ fgPc' = "F323"
  /\ UNCHANGED <<st, sps, timers, dirPin, stepCount, motionComplete, planner,
                 medPc, medSeg, obs, prepRes>>

\* Line 323: the test of exec_state.
FgTest ==
  /\ medPc = "idle"
  /\ fgPc = "F323"
  /\ fgPc' = IF exec_owned(Machine) THEN "F324" ELSE "idle"
  /\ obs' = IF exec_owned(Machine) THEN obs ELSE ObsGated(Machine).obs
  /\ UNCHANGED <<st, sps, timers, dirPin, stepCount, motionComplete, planner,
                 medPc, medSeg, prepRes>>

\* Line 324: enable the exec timer.
FgEnable ==
  /\ medPc = "idle"
  /\ fgPc = "F324"
  /\ timers' = [timers EXCEPT !.exec = TRUE]
  /\ fgPc' = "idle"
  /\ UNCHANGED <<st, sps, dirPin, stepCount, motionComplete, planner, medPc,
                 medSeg, obs, prepRes>>

Next ==
  \/ DdaIsr
  \/ LoadIsr
  \/ LoadStep
  \/ ExecIsr
  \/ ExecGate
  \/ mp_exec_move_noop
  \/ mp_exec_move_null
  \/ mp_exec_move_aline
  \/ PrepCheck
  \/ PrepMotors
  \/ PrepTicks
  \/ ExecHandOver
  \/ ExecRequestLoad
  \/ FgEnqueue
  \/ FgRequest
  \/ FgTest
  \/ FgEnable

Spec == Init /\ [][Next]_vars

\* The handlers of the two MED interrupts, entry and body.
LoadHandler == LoadIsr \/ LoadStep

ExecHandler ==
  \/ ExecIsr
  \/ ExecGate
  \/ mp_exec_move_noop
  \/ mp_exec_move_null
  \/ mp_exec_move_aline
  \/ PrepCheck
  \/ PrepMotors
  \/ PrepTicks
  \/ ExecHandOver
  \/ ExecRequestLoad

\* Fair scheduling of the three interrupts: an enabled timer's interrupt is
\* served and a handler that has started runs on.  Nothing is assumed of the
\* foreground.
FairSpec ==
  /\ Spec
  /\ WF_vars(DdaIsr)
  /\ WF_vars(LoadHandler)
  /\ WF_vars(ExecHandler)

\* ------------------------------------------- st_prep_line as a single call
\* Prep buffers the call can find: either owner, any type and flags,
\* prev_ticks equal to dda_ticks (both are written by the same call).
PrepTickInputs == {0, 1, 3}
PrepIncInputs == {0, 3}

PrepStates ==
  { [move_type |-> mt, prep_state |-> ps, exec_state |-> es, reset_flag |-> rf,
     prev_ticks |-> t, dda_ticks |-> t,
     dda_ticks_X_substeps |-> t * DDA_SUBSTEPS,
     m |-> [Z |-> [phase_increment |-> iz, dir |-> Z_AXIS_MOTOR_POLARITY],
            R |-> [phase_increment |-> 0, dir |-> R_AXIS_MOTOR_POLARITY]]] :
      mt \in {MOVE_TYPE_NULL, MOVE_TYPE_ALINE}, ps \in BOOLEAN,
      es \in {PREP_BUFFER_OWNED_BY_EXEC, PREP_BUFFER_OWNED_BY_LOADER},
      rf \in BOOLEAN, t \in PrepTickInputs, iz \in PrepIncInputs }

InitPrep ==
  /\ st = StInit
  /\ sps \in PrepStates
  /\ timers = [dda |-> FALSE, load |-> FALSE, exec |-> FALSE]
  /\ dirPin = [mm \in Motors |-> 0]
  /\ stepCount = [mm \in Motors |-> 0]
  /\ motionComplete = FALSE
  /\ planner = [queued |-> 0, made |-> 0]
  /\ medPc = "idle"
  /\ medSeg = NullSeg
  /\ fgPc = "idle"
  /\ obs = ObsInit
  /\ prepRes = NoPrepRes

\* One call of st_prep_line (lines 399-429), start to end.
PrepLineCall ==
  /\ ~prepRes.called
  /\ \E seg \in SegInputs :
       /\ seg.type = MOVE_TYPE_ALINE
       /\ LET r == st_prep_line(sps, seg.steps, seg.dirs, seg.us) IN
            /\ sps' = r.sps
            /\ prepRes' = [called |-> TRUE, status |-> r.status,
                           before |-> sps, us |-> seg.us]
  /\ UNCHANGED <<st, timers, dirPin, stepCount, motionComplete, planner,
                 medPc, medSeg, fgPc, obs>>

NextPrep == PrepLineCall

SpecPrep == InitPrep /\ [][NextPrep]_vars

\* ------------------------------------------------------ st_init, called again
\* Lines 362-372: st_init stores the controller reference and the two
\* sentinels and sets exec_state; the memset of line 366 is commented out, so
\* every other field of st and sps keeps its value.
st_init(s) == [s EXCEPT !.exec_state = PREP_BUFFER_OWNED_BY_EXEC]

\* The foreground calls st_init on whatever the prep buffer holds.
StInitCall ==
  /\ fgPc = "idle"
  /\ ~prepRes.called
  /\ sps' = st_init(sps)
  /\ fgPc' = "S372"
  /\ UNCHANGED <<st, timers, dirPin, stepCount, motionComplete, planner,
                 medPc, medSeg, obs, prepRes>>

NextReinit == StInitCall \/ PrepLineCall

SpecReinit == InitPrep /\ [][NextReinit]_vars

\* ------------------------------------------------ one segment, tick by tick
\* Longer segments than the planner of Spec delivers, each run after one of a
\* few histories.  A history is the state a first segment leaves when it has
\* run to its end (computed with the handlers above), or the state after
\* st_init.
DdaSegInputs ==
  { \* 10 ticks: 2.5 steps on Z, 1 step on R
    Seg(MOVE_TYPE_ALINE, <<5, 2>>, <<1, 1>>, 0, 0, Usec(200)),
    \* 5 ticks: 3 steps on Z, 2 steps back on R
    Seg(MOVE_TYPE_ALINE, <<3, 1>>, <<-2, 1>>, 0, 1, Usec(100)),
    \* 8 ticks: 2 steps on Z, 1.5 steps on R
    Seg(MOVE_TYPE_ALINE, <<2, 1>>, <<3, 2>>, 1, 0, Usec(160)),
    \* 4 ticks: 4 steps on Z (one per tick), 1 step on R
    Seg(MOVE_TYPE_ALINE, <<4, 1>>, <<1, 1>>, 0, 0, Usec(80)),
    \* 7 ticks: 3.5 steps back on Z, 2.5 steps on R
    Seg(MOVE_TYPE_ALINE, <<-7, 2>>, <<5, 2>>, 1, 0, Usec(140))
  }

DdaHistorySegs ==
  { \* 30 ticks without a step
    Seg(MOVE_TYPE_ALINE, <<0, 1>>, <<0, 1>>, 0, 0, Usec(600)),
    \* 3 ticks: 1.5 steps on Z, 1 step on R
    Seg(MOVE_TYPE_ALINE, <<3, 2>>, <<1, 1>>, 1, 0, Usec(60))
  }

\* The machine after st_init.
Boot ==
  [st |-> StInit, sps |-> SpsInit,
   tm |-> [dda |-> FALSE, load |-> FALSE, exec |-> FALSE],
   dirPin |-> [mm \in Motors |-> 0], stepCount |-> [mm \in Motors |-> 0],
   mc |-> FALSE, pc |-> "idle", obs |-> ObsInit]

\* _exec_move with a segment the preparer accepts: st_prep_line, line 341.
Prepared(m, seg) ==
  exec_341(ObsHandOver(ObsPrepLine(
    [ObsWrite(m) EXCEPT
       !.sps = st_prep_line(m.sps, seg.steps, seg.dirs, seg.us).sps], seg)))

\* DDA interrupts until the timer is disabled.
RECURSIVE Ticks(_)
Ticks(m) ==
  IF m.tm.dda THEN The({ Ticks(n) : n \in {dda_isr(m)} }) ELSE m

\* The first segment prepared, loaded and run to its end; the exec interrupt
\* that its load requested has found the planner empty.
History(seg) ==
  The({ [e EXCEPT !.tm.exec = FALSE] :
        e \in { Ticks(l) : l \in { _load_move(p) :
                p \in { Prepared(Boot, seg) } } } })

DdaHistories == {Boot} \cup { History(seg) : seg \in DdaHistorySegs }

\* mp_exec_move has taken the segment and is about to call st_prep_line.
InitDda ==
  \E h \in DdaHistories, seg \in DdaSegInputs :
    /\ st = h.st
    /\ sps = h.sps
    /\ timers = h.tm
    /\ dirPin = h.dirPin
    /\ stepCount = h.stepCount
    /\ motionComplete = h.mc
    /\ obs = h.obs
    /\ planner = [queued |-> 0, made |-> 1]
    /\ medPc = "P406"
    /\ medSeg = seg
    /\ fgPc = "idle"
    /\ prepRes = NoPrepRes

NextDda ==
  \/ PrepCheck
  \/ PrepMotors
  \/ PrepTicks
  \/ ExecHandOver
  \/ ExecRequestLoad
  \/ LoadIsr
  \/ LoadStep
  \/ DdaIsr

SpecDda == InitDda /\ [][NextDda]_vars

\* ------------------------------------------------------------- properties
\* No handler is active and no interrupt is pending or enabled.
Quiet ==
  /\ medPc = "idle"
  /\ fgPc = "idle"
  /\ ~timers.dda
  /\ ~timers.load
  /\ ~timers.exec

\* C1: the prep buffer has one owner at a time: st_prep_line and st_prep_null
\* write sps only while exec_state is OWNED_BY_EXEC, _load_move reads sps
\* only while exec_state is OWNED_BY_LOADER, and _load_move never reads a
\* buffer that st_prep_line has written only in part.
C1_SingleOwner == ~obs.writeBad /\ ~obs.readBad /\ ~obs.torn

\* C2: every consumption of the prep buffer by _load_move is preceded by
\* exactly one hand-over by _exec_move since the previous consumption: no
\* prepared segment is loaded twice, none is handed over twice.
C2_OneHandOverPerLoad == ~obs.dup /\ obs.hand <= 1

\* A step of the exec handler or of a foreground exec request.
ExecRequestStep ==
  \/ ExecHandler
  \/ FgEnqueue
  \/ FgRequest
  \/ FgTest
  \/ FgEnable

\* C3: per ownership cycle at most one prep takes effect, and once the buffer
\* is OWNED_BY_LOADER no exec request, no run of the exec ISR and no step of
\* the exec handler changes any field of sps.
C3_ExecRequestIdempotent ==
  /\ [](obs.preps <= 1)
  /\ [][(sps.exec_state = PREP_BUFFER_OWNED_BY_LOADER /\ ExecRequestStep)
          => sps' = sps]_vars

\* An exec request was refused while a prepared segment waits for the loader.
C3_Witness ==
  /\ obs.gated
  /\ obs.preps = 1
  /\ sps.exec_state = PREP_BUFFER_OWNED_BY_LOADER
  /\ medPc = "idle"

\* C4: when every loaded segment has run to completion, the pulses emitted on
\* each motor differ from the sum of the segments' rounded |steps| by at
\* most one per loaded segment.
C4_PulseCount ==
  (Quiet /\ st.dda_ticks_downcount = 0)
    => \A mm \in Motors :
         stepCount[mm] - obs.sumS[mm] \in (-obs.nseg)..obs.nseg

\* C5: a segment loaded with dda_ticks = T ends (downcount reaches zero, the
\* DDA ISR disables its timer and calls _load_move) on its T-th tick, not
\* before and not after.
C5_SegmentLength == ~obs.lenBad

\* C6: every pulse on a motor whose step count in the running segment is not
\* zero is emitted with the direction pin at directions[m] XOR polarity[m].
C6_Direction == ~obs.dirBad

\* C7: when the first tick of a segment starts, both accumulators are
\* -dda_ticks if the anti-stall condition held when the segment was
\* prepared, and are the residual of the previous segment if it did not.
C7_AntiStall ==
  obs.fresh =>
    \A mm \in Motors :
      st.m[mm].phase_accumulator =
        IF obs.runCond THEN -obs.segT ELSE obs.resid[mm]

\* C8: when the planner has run dry after the last prepared segment was
\* consumed and everything has come to rest, motionComplete has been set
\* true exactly once since that consumption.
C8_MotionCompleteOnce ==
  (Quiet /\ planner.queued = 0 /\ obs.consumed) => obs.mcSince = 1

\* The buffer is handed over and waits for the loader.
HandedOver == sps.exec_state = PREP_BUFFER_OWNED_BY_LOADER

\* A load is on its way whenever the buffer waits and no MED handler runs: a
\* load interrupt is pending or the DDA timer is enabled (the last tick of
\* the running segment calls _load_move).
NoStall == (medPc = "idle" /\ HandedOver) => (timers.load \/ timers.dda)

\* The run has reached the bound up to which a downcount below zero is
\* followed.
RunawayCutOff == st.dda_ticks_downcount = -MaxRunaway

C10_RejectionLeavesPrep ==
  prepRes.called =>
    /\ prepRes.status # STAT_OK => sps = prepRes.before
    /\ prepRes.before.exec_state # PREP_BUFFER_OWNED_BY_EXEC
         => prepRes.status = STAT_INTERNAL_ERROR

\* A call with a duration that is not finite, made on a buffer the loader
\* owns and whose reset_flag is set, was rejected.
C10_Witness ==
  /\ prepRes.called
  /\ prepRes.status = STAT_INTERNAL_ERROR
  /\ ~isfinite(prepRes.us)
  /\ prepRes.before.reset_flag

\* C11: for every segment st_prep_line accepts, each motor's prepared
\* phase_increment is at most sps.dda_ticks_X_substeps, and while a loaded
\* segment runs each motor's st phase_increment is at most
\* st.dda_ticks_X_substeps (at most one step per tick per motor).
C11_IncrementBound ==
  /\ (sps.prep_state /\ sps.move_type = MOVE_TYPE_ALINE)
       => \A mm \in Motors :
            sps.m[mm].phase_increment <= sps.dda_ticks_X_substeps
  /\ timers.dda
       => \A mm \in Motors :
            st.m[mm].phase_increment <= st.dda_ticks_X_substeps


\* The statements of _load_move that write st or start the DDA timer.
LoadWritePcs == {"L268", "L269", "L277", "L291", "L308"}

\* C12: st is never accessed concurrently.  _load_move makes its first
\* write to st (line 268) only with dda_ticks_downcount = 0, the DDA timer is
\* disabled for as long as _load_move is writing st (so no DDA tick, and no
\* pulse, falls inside a load), and a _load_move entered with
\* dda_ticks_downcount # 0 returns having changed nothing.
C12_LoaderWritesIdle ==
  /\ [](medPc = "L268" => st.dda_ticks_downcount = 0)
  /\ [](medPc \in LoadWritePcs => ~timers.dda)
  /\ [][(medPc = "L258" /\ st.dda_ticks_downcount # 0 /\ LoadStep)
          => /\ medPc' = "idle"
             /\ UNCHANGED <<st, sps, dirPin, timers, motionComplete>>]_vars


\* The statements of _load_move that a null move passes through.
NullLoadPcs == {"L267", "L312", "L313", "L314"}

\* C13: a null move.  (a) Called with the runtime idle and a buffer of type
\* MOVE_TYPE_NULL handed over, _load_move leaves st, the direction pins, the
\* pulse counts and the DDA timer as they are, and changes sps only in
\* exec_state (OWNED_BY_EXEC) and prep_state (false), and it enables the exec
\* timer.  (b) The same holds statement by statement when the load interrupt
\* runs it, prev_ticks and reset_flag included.  (c) st_prep_null changes only
\* move_type and prep_state.
C13_NullMove ==
  /\ []((/\ st.dda_ticks_downcount = 0
         /\ sps.exec_state = PREP_BUFFER_OWNED_BY_LOADER
         /\ sps.move_type = MOVE_TYPE_NULL)
        => \E r \in {_load_move(Machine)} :
             /\ r.st = st
             /\ r.dirPin = dirPin
             /\ r.stepCount = stepCount
             /\ r.tm.dda = timers.dda
             /\ r.tm.exec
             /\ r.sps = [sps EXCEPT !.exec_state = PREP_BUFFER_OWNED_BY_EXEC,
                                    !.prep_state = FALSE])
  /\ [][(medPc \in NullLoadPcs /\ sps.move_type = MOVE_TYPE_NULL /\ LoadStep)
          => /\ UNCHANGED <<st, dirPin, stepCount>>
             /\ timers'.dda = timers.dda
             /\ sps'.prev_ticks = sps.prev_ticks
             /\ sps'.reset_flag = sps.reset_flag
             /\ medPc = "L314"
                  => /\ timers'.exec
                     /\ sps'.exec_state = PREP_BUFFER_OWNED_BY_EXEC
                     /\ sps'.prep_state = FALSE]_vars
  /\ [][mp_exec_move_null
          => sps' = [sps EXCEPT !.move_type = MOVE_TYPE_NULL,
                                !.prep_state = TRUE]]_vars

\* The load interrupt has consumed a null move that followed an ALINE
\* segment: prev_ticks is still that segment's.
C13_Witness ==
  /\ medPc = "L314"
  /\ sps.move_type = MOVE_TYPE_NULL
  /\ sps.prev_ticks > 0
  /\ stepCount["Z"] > 0


\* A DDA interrupt emits at most one pulse per motor.
OnePulsePerTick ==
  \A mm \in Motors : stepCount'[mm] - stepCount[mm] \in {0, 1}

MotionCompleteSet == obs'.mcSince > obs.mcSince

\* C15: whenever _load_move sets motionComplete the runtime is idle, the
\* planner has no segment left to deliver and the exec handler is not in the
\* middle of _exec_move (between its ownership test and the hand-over of the
\* segment it is preparing).
C15_MotionCompleteMeansDrained ==
  [][MotionCompleteSet
       => /\ st'.dda_ticks_downcount = 0
          /\ planner.queued = 0
          /\ medPc \notin ExecPcs]_vars


\* C16: after any call of st_init the prep buffer is OWNED_BY_EXEC, and the
\* first segment st_prep_line accepts after it leaves reset_flag false.
C16_FirstSegmentNoReset ==
  fgPc = "S372" =>
    /\ ~prepRes.called => sps.exec_state = PREP_BUFFER_OWNED_BY_EXEC
    /\ (prepRes.called /\ prepRes.status = STAT_OK) => ~sps.reset_flag


\* C17: outside the DDA ISR and _load_move the DDA timer is enabled exactly
\* when dda_ticks_downcount # 0, so st_isbusy() (lines 377-383) is true
\* exactly while the timer runs and _request_load_move never finds a running
\* DDA idle.
C17_BusyIffTimer ==
  medPc \notin LoadPcs => (timers.dda <=> st.dda_ticks_downcount # 0)


\* C18: a motor whose phase_increment is 0 in the loaded segment is not
\* pulsed during that segment; equivalently each motor's phase_accumulator is
\* <= 0 at the end of every DDA tick, hence at the start of every segment.
C18_NoStalePulse ==
  /\ [](\A mm \in Motors : st.m[mm].phase_accumulator <= 0)
  /\ [][\A mm \in Motors :
          (DdaIsr /\ st.m[mm].phase_increment = 0)
            => stepCount'[mm] = stepCount[mm]]_vars


\* This step is a _load_move that passes both gates and consumes the prep
\* buffer: at line 259 of the load interrupt, or inside the DDA ISR (the
\* buffer goes from the loader back to the preparer within the one step).
Consumes ==
  \/ medPc = "L259" /\ medPc' = "L267"
  \/ /\ DdaIsr
     /\ sps.exec_state = PREP_BUFFER_OWNED_BY_LOADER
     /\ sps'.exec_state = PREP_BUFFER_OWNED_BY_EXEC

\* C19: whenever _load_move consumes the prep buffer, prep_state is true: the
\* buffer was filled by an st_prep_line that returned STAT_OK, or by
\* st_prep_null, since the previous consumption.
C19_ConsumesFresh ==
  [][Consumes => (sps.prep_state /\ obs.preps >= 1)]_vars

====
